---- MODULE Spec2Model ----
(***************************************************************************)
(* AI-Batch-Queue: the in-memory BatchQueue (queue.rs) and the background  *)
(* executor (executor.rs).  The job store is the Vec<BatchJob> behind one  *)
(* Mutex; every BatchQueue method takes the lock once, so each method call *)
(* is one atomic step.  The executor is one task; its steps are the places *)
(* where it takes the lock, and callers' enqueue / cancel_item /           *)
(* cancel_job / retry_failed calls interleave between them.                *)
(*                                                                         *)
(* Option<T> is a sequence: <<>> is None and <<v>> is Some(v).             *)
(* Job ids are naturals; 0 stands for the empty string.                    *)
(* Resource keys are naturals standing for their byte-wise rank.           *)
(***************************************************************************)
EXTENDS Integers, Sequences, FiniteSets, TLC

\* ---------------------------------------------------------------- bounds
\* Spec: the executor with concurrent callers
MaxJobs == 2
MaxItems == 2
MaxCalls == 1
MaxSamples == 4
\* StoreSpec: a caller driving the BatchQueue methods directly
StoreMaxJobs == 3
StoreMaxCalls == 3
\* LockSpec: threads inside update_item and estimate_remaining_ms
LockMaxJobs == 1
LockMaxCalls == 3
\* TauriSpec: the Tauri-Queue executor with callers of QueueManager
TauriMaxJobs == 2
TauriMaxCalls == 2
MaxConsecutive == 1
\* EtaSpec: a caller of EtaTracker::record and EtaTracker::estimate_remaining
EtaMaxCalls == 3
MaxBuckets == 2
\* ReorderSpec: the reorder pass applied to job lists of every shape
ReorderMaxJobs == 3
ReorderMaxPasses == 2

\* ------------------------------------------------------------ input sets
ResourceKeys == {1, 2}
Operations == {"tag"}
OverwritePolicies == {"Skip", "Overwrite"}
ElapsedMs == {5}
SizeBuckets == {"Small", "Medium", "Large", "Unknown"}
DurationsMs == {2, 5}

None == <<>>
Some(v) == <<v>>

SkippedMsg == "Skipped: already has data"
ReorderNote == "Reordered: grouping by resource to minimize swaps"

VARIABLES
    jobs,     \* BatchQueue.jobs: the Vec<BatchJob> behind the Mutex
    now,      \* the wall clock read by chrono::Utc::now()
    exec,     \* the executor task: its position and its locals
    hist,     \* history of the calls made so far, with what the last
              \* mark_completed call returned (observation only)
    eta,      \* BatchQueue.eta: EtaTracker.data, the HashMap<EtaKey, EtaStats>
    events,   \* what app_handle.emit has sent since the executor last took a job
    thr,      \* threads inside a BatchQueue method: position and locks held
    db,       \* Tauri-Queue: the queue_jobs table behind Arc<Mutex<Connection>>
    paused,   \* Tauri-Queue: QueueExecutor.paused
    queue_exec,   \* Tauri-Queue: the QueueExecutor task: position and locals
    queue_events, \* Tauri-Queue: events emitted since the executor last took a job
    queue_hist    \* Tauri-Queue: history of the calls made and of the jobs
                  \* started since the last cooldown or empty poll (observation only)

lock_vars == <<thr>>
tauri_vars == <<db, paused, queue_exec, queue_events, queue_hist>>
vars == <<jobs, now, exec, hist, eta, events, lock_vars, tauri_vars>>

\* ----------------------------------------------------------------- types
BatchItem(i) ==
    [id |-> i, status |-> "Pending", error |-> None, duration_ms |-> None,
     size_bucket |-> "Medium"]

build_job(resource_key, operation, overwrite_policy, n) ==
    [id |-> 0,
     resource_key |-> resource_key,
     operation |-> operation,
     overwrite_policy |-> overwrite_policy,
     items |-> [i \in 1..n |-> BatchItem(i)],
     status |-> "Queued",
     created_at |-> 0,
     started_at |-> None,
     completed_at |-> None,
     reordered |-> FALSE,
     reorder_note |-> None]

Terminal == {"Completed", "CompletedWithErrors", "Cancelled"}

\* ------------------------------------------------------------- utilities
MaxOf(S) == IF S = {} THEN 0 ELSE CHOOSE x \in S : \A y \in S : y <= x

\* Iterator::find / iter_mut().find: the index of the first job with this id,
\* 0 when there is none.
find(js, job_id) ==
    IF \E i \in DOMAIN js : js[i].id = job_id
    THEN CHOOSE i \in DOMAIN js :
            /\ js[i].id = job_id
            /\ \A k \in DOMAIN js : js[k].id = job_id => i <= k
    ELSE 0

find_item(items, item_id) ==
    IF \E i \in DOMAIN items : items[i].id = item_id
    THEN CHOOSE i \in DOMAIN items :
            /\ items[i].id = item_id
            /\ \A k \in DOMAIN items : items[k].id = item_id => i <= k
    ELSE 0

\* uuid::Uuid::new_v4(): an id no job of the store has.
new_v4(js) == MaxOf({js[i].id : i \in DOMAIN js}) + 1

\* --------------------------------------------------------------- reorder
\* mutant: an unstable sort, which turns equal keys around
RECURSIVE insert_sorted_before_equal(_, _)
insert_sorted_before_equal(s, j) ==
    IF s = <<>> THEN <<j>>
    ELSE IF s[Len(s)].resource_key < j.resource_key
         THEN Append(s, j)
         ELSE Append(insert_sorted_before_equal(SubSeq(s, 1, Len(s) - 1), j),
                     s[Len(s)])

\* slice::sort_by(|a, b| a.resource_key.cmp(&b.resource_key)) is a stable
\* sort: insertion after the last element that is not greater.
RECURSIVE insert_sorted(_, _)
insert_sorted(s, j) ==
    IF s = <<>> THEN <<j>>
    ELSE IF s[Len(s)].resource_key <= j.resource_key
         THEN Append(s, j)
         ELSE Append(insert_sorted(SubSeq(s, 1, Len(s) - 1), j), s[Len(s)])

RECURSIVE sort_by_from(_, _, _)
sort_by_from(s, k, acc) ==
    IF k > Len(s) THEN acc ELSE sort_by_from(s, k + 1, insert_sorted(acc, s[k]))

sort_by_resource_key(s) == sort_by_from(s, 1, <<>>)

RECURSIVE indices_from(_, _)
indices_from(js, k) ==
    IF k > Len(js) THEN <<>>
    ELSE IF js[k].status = "Queued"
         THEN <<k>> \o indices_from(js, k + 1)
         ELSE indices_from(js, k + 1)

queued_indices(js) == indices_from(js, 1)

mark_reordered(j) == [j EXCEPT !.reordered = TRUE, !.reorder_note = Some(ReorderNote)]

\* mutant: the status filter is lost, so the whole list is sorted
reorder_all_jobs(js) ==
    LET sorted == sort_by_resource_key(js)
    IN  IF Len(js) < 2 \/ sorted = js THEN js
        ELSE [i \in DOMAIN js |-> mark_reordered(sorted[i])]

\* mutant: the write-back puts the first sorted job into every Queued slot
reorder_queued_overwriting(js) ==
    LET qi == queued_indices(js)
        queued_jobs == [k \in 1..Len(qi) |-> js[qi[k]]]
        sorted == sort_by_resource_key(queued_jobs)
    IN  IF Len(qi) < 2 THEN js
        ELSE [i \in DOMAIN js |->
                IF js[i].status = "Queued" THEN mark_reordered(sorted[1]) ELSE js[i]]

reorder_queued_jobs(js) ==
    LET qi == queued_indices(js)
        queued_jobs == [k \in 1..Len(qi) |-> js[qi[k]]]
        original_order == [k \in 1..Len(qi) |-> queued_jobs[k].id]
        sorted == sort_by_resource_key(queued_jobs)
        new_order == [k \in 1..Len(qi) |-> sorted[k].id]
        slot(i) == CHOOSE k \in 1..Len(qi) : qi[k] = i
    IN  IF Len(qi) < 2 THEN js
        ELSE IF original_order # new_order
             THEN [i \in DOMAIN js |->
                     IF js[i].status = "Queued"
                     THEN mark_reordered(sorted[slot(i)])
                     ELSE js[i]]
             ELSE js

\* ------------------------------------------------------ BatchQueue methods
enqueue(js, job, t) ==
    LET j1 == IF job.id = 0 THEN [job EXCEPT !.id = new_v4(js)] ELSE job
        j2 == [j1 EXCEPT !.status = "Queued", !.created_at = t]
    IN  reorder_queued_jobs(Append(js, j2))

next_queued(js) ==
    LET qi == queued_indices(js)
    IN  IF qi = <<>> THEN None ELSE Some(js[qi[1]])

has_running_job(js) == \E i \in DOMAIN js : js[i].status = "Running"

\* mutant: every job with the id is marked (filter in place of find)
mark_running_every(js, job_id, t) ==
    [i \in DOMAIN js |->
        IF js[i].id = job_id
        THEN [js[i] EXCEPT !.status = "Running", !.started_at = Some(t)]
        ELSE js[i]]

mark_running(js, job_id, t) ==
    LET i == find(js, job_id)
    IN  IF i = 0 THEN js
        ELSE [js EXCEPT ![i].status = "Running", ![i].started_at = Some(t)]

update_item(js, job_id, item_id, status, error, duration_ms) ==
    LET i == find(js, job_id)
    IN  IF i = 0 THEN js
        ELSE LET k == find_item(js[i].items, item_id)
             IN  IF k = 0 THEN js
                 ELSE [js EXCEPT ![i].items[k].status = status,
                                 ![i].items[k].error = error,
                                 ![i].items[k].duration_ms = duration_ms]

\* update_item's locals: `should_record`, and the key read from the stored job
\* and item while the jobs lock is held; None when the job or item is not found
\* or nothing is to be recorded.
should_record(js, job_id, item_id, status, duration_ms) ==
    LET i == find(js, job_id)
        k == IF i = 0 THEN 0 ELSE find_item(js[i].items, item_id)
    IN  IF i # 0 /\ k # 0 /\ status = "Completed" /\ duration_ms # None
        THEN Some([resource_key |-> js[i].resource_key,
                   operation |-> js[i].operation,
                   size_bucket |-> js[i].items[k].size_bucket])
        ELSE None

\* EtaTracker::record: data.entry(key).or_insert({0, 0}), then the two +=
record(data, key, duration_ms) ==
    LET old == IF key \in DOMAIN data THEN data[key]
               ELSE [total_ms |-> 0, count |-> 0]
    IN  [k \in DOMAIN data \cup {key} |->
            IF k = key
            THEN [total_ms |-> old.total_ms + duration_ms, count |-> old.count + 1]
            ELSE data[k]]

\* EtaTracker::sample_count
sample_count(data, resource_key, operation, size_bucket) ==
    LET key == [resource_key |-> resource_key, operation |-> operation,
                size_bucket |-> size_bucket]
    IN  IF key \in DOMAIN data THEN data[key].count ELSE 0

\* EtaStats::avg_ms
avg_ms(stats) == IF stats.count = 0 THEN 0 ELSE stats.total_ms \div stats.count

\* mutant: no fallback to the Unknown bucket
bucket_stats_exact_only(data, resource_key, operation, bucket) ==
    LET key == [resource_key |-> resource_key, operation |-> operation,
                size_bucket |-> bucket]
    IN  IF key \in DOMAIN data THEN Some(data[key]) ELSE None

\* estimate_remaining, one bucket: the exact key, else the Unknown bucket of
\* the same resource and operation, else nothing
bucket_stats(data, resource_key, operation, bucket) ==
    LET key == [resource_key |-> resource_key, operation |-> operation,
                size_bucket |-> bucket]
        fallback == [resource_key |-> resource_key, operation |-> operation,
                     size_bucket |-> "Unknown"]
    IN  IF key \in DOMAIN data THEN Some(data[key])
        ELSE IF fallback \in DOMAIN data THEN Some(data[fallback])
        ELSE None

RECURSIVE estimate_from(_, _, _, _, _)
estimate_from(data, resource_key, operation, remaining_buckets, k) ==
    IF k > Len(remaining_buckets) THEN [total_estimate |-> 0, has_data |-> FALSE]
    ELSE LET rest == estimate_from(data, resource_key, operation,
                                   remaining_buckets, k + 1)
             stats == bucket_stats(data, resource_key, operation,
                                   remaining_buckets[k])
         IN  IF stats = None THEN rest
             ELSE [total_estimate |-> avg_ms(stats[1]) + rest.total_estimate,
                   has_data |-> TRUE]

\* EtaTracker::estimate_remaining
estimate_remaining(data, resource_key, operation, remaining_buckets) ==
    LET r == estimate_from(data, resource_key, operation, remaining_buckets, 1)
    IN  IF r.has_data THEN Some(r.total_estimate) ELSE None

\* estimate_remaining_ms: the buckets of the items still Pending or Running
RECURSIVE remaining_from(_, _)
remaining_from(items, k) ==
    IF k > Len(items) THEN <<>>
    ELSE IF items[k].status \in {"Pending", "Running"}
         THEN <<items[k].size_bucket>> \o remaining_from(items, k + 1)
         ELSE remaining_from(items, k + 1)

\* update_item as one call by a caller nobody interleaves with: the two lock
\* sections in sequence
update_item_eta(data, js, job_id, item_id, status, duration_ms) ==
    LET key == should_record(js, job_id, item_id, status, duration_ms)
    IN  IF key = None THEN data ELSE record(data, key[1], duration_ms[1])

count_status(items, S) == Cardinality({k \in DOMAIN items : items[k].status \in S})

RECURSIVE sum_durations(_, _)
sum_durations(items, k) ==
    IF k > Len(items) THEN 0
    ELSE (IF items[k].duration_ms = None THEN 0 ELSE items[k].duration_ms[1])
         + sum_durations(items, k + 1)

\* mutant: the average is taken over all the job's items
completion_summary_avg_over_total(js, job_id) ==
    LET i == find(js, job_id)
    IN  IF i = 0 THEN None
        ELSE LET items == js[i].items
                 total_ms == sum_durations(items, 1)
             IN  Some([job_id |-> js[i].id,
                       operation |-> js[i].operation,
                       resource_key |-> js[i].resource_key,
                       total |-> Len(items),
                       succeeded |-> count_status(items, {"Completed"}),
                       failed |-> count_status(items, {"Failed"}),
                       skipped |-> count_status(items, {"Cancelled", "Skipped"}),
                       total_duration_ms |-> total_ms,
                       avg_duration_ms |-> IF Len(items) > 0
                                           THEN total_ms \div Len(items) ELSE 0])

\* mark_completed's return value: Some(BatchCompletionSummary), None when the
\* job is not found
completion_summary(js, job_id) ==
    LET i == find(js, job_id)
    IN  IF i = 0 THEN None
        ELSE LET items == js[i].items
                 failed == count_status(items, {"Failed"})
                 succeeded == count_status(items, {"Completed"})
                 skipped == count_status(items, {"Cancelled", "Skipped"})
                 total_ms == sum_durations(items, 1)
                 processed == succeeded + failed
             IN  Some([job_id |-> js[i].id,
                       operation |-> js[i].operation,
                       resource_key |-> js[i].resource_key,
                       total |-> Len(items),
                       succeeded |-> succeeded,
                       failed |-> failed,
                       skipped |-> skipped,
                       total_duration_ms |-> total_ms,
                       avg_duration_ms |-> IF processed > 0
                                           THEN total_ms \div processed ELSE 0])

mark_completed(js, job_id, t) ==
    LET i == find(js, job_id)
    IN  IF i = 0 THEN js
        ELSE LET failed == count_status(js[i].items, {"Failed"})
             IN  [js EXCEPT ![i].status = IF failed > 0 THEN "CompletedWithErrors"
                                           ELSE "Completed",
                            ![i].completed_at = Some(t)]

cancel_item(js, job_id, item_id) ==
    LET i == find(js, job_id)
    IN  IF i = 0 THEN js
        ELSE LET k == find_item(js[i].items, item_id)
             IN  IF k = 0 THEN js
                 ELSE IF js[i].items[k].status = "Pending"
                      THEN [js EXCEPT ![i].items[k].status = "Cancelled"]
                      ELSE js

cancel_pending(items) ==
    [k \in DOMAIN items |->
        IF items[k].status = "Pending"
        THEN [items[k] EXCEPT !.status = "Cancelled"]
        ELSE items[k]]

cancel_job(js, job_id, t) ==
    LET i == find(js, job_id)
    IN  IF i = 0 THEN js
        ELSE LET items == cancel_pending(js[i].items)
                 any_running == \E k \in DOMAIN items : items[k].status = "Running"
             IN  IF ~any_running
                 THEN [js EXCEPT ![i].items = items,
                                 ![i].status = "Cancelled",
                                 ![i].completed_at = Some(t)]
                 ELSE [js EXCEPT ![i].items = items]

has_failed(js, job_id) ==
    LET i == find(js, job_id)
    IN  i # 0 /\ \E k \in DOMAIN js[i].items : js[i].items[k].status = "Failed"

\* mutant: the duration of a retried item is kept
reset_failed_keep_duration(items) ==
    [k \in DOMAIN items |->
        IF items[k].status = "Failed"
        THEN [items[k] EXCEPT !.status = "Pending", !.error = None]
        ELSE items[k]]

reset_failed(items) ==
    [k \in DOMAIN items |->
        IF items[k].status = "Failed"
        THEN [items[k] EXCEPT !.status = "Pending", !.error = None,
                              !.duration_ms = None]
        ELSE items[k]]

\* mutant: no bail! when nothing failed
retry_failed_no_bail(js, job_id) ==
    LET i == find(js, job_id)
    IN  IF i = 0 THEN [result |-> "Ok", jobs |-> js]
        ELSE [result |-> "Ok",
              jobs |-> reorder_queued_jobs(
                          [js EXCEPT ![i].items = reset_failed(js[i].items),
                                     ![i].status = "Queued",
                                     ![i].completed_at = None])]

\* retry_failed returns a Result: `result` is "Err" on the bail! path, and
\* `jobs` is the store the call leaves behind.
retry_failed(js, job_id) ==
    LET i == find(js, job_id)
    IN  IF i = 0 THEN [result |-> "Ok", jobs |-> js]
        ELSE IF ~has_failed(js, job_id) THEN [result |-> "Err", jobs |-> js]
        ELSE [result |-> "Ok",
              jobs |-> reorder_queued_jobs(
                          [js EXCEPT ![i].items = reset_failed(js[i].items),
                                     ![i].status = "Queued",
                                     ![i].completed_at = None])]

\* ------------------------------------------------------------------ Init
Idle == [pc |-> "sleep", job |-> None, idx |-> 0, completed_count |-> 0,
         to_record |-> None]

\* EtaTracker::new: an empty HashMap
NoSamples == [key \in {} |-> [total_ms |-> 0, count |-> 0]]

\* threads that call into one BatchQueue; none is inside a method at the start
Threads == {1, 2}
ThreadIdle == [pc |-> "idle", held |-> {}, args |-> None, ret |-> None]

\* Tauri-Queue: open_database on a new file: the table is empty
NoRows == [id \in {} |-> [status |-> "pending"]]

\* Tauri-Queue: run_loop before its first poll
QueueIdle == [pc |-> "sleep", job_id |-> None, job_data |-> None,
              consecutive_count |-> 0, result |-> None]

Init ==
    /\ jobs = <<>>
    /\ now = 0
    /\ exec = Idle
    /\ hist = [calls |-> 0, ret |-> "Ok", cancel_in_item |-> FALSE,
               item_cancelled |-> {},
               summary |-> None]
    /\ eta = NoSamples
    /\ events = <<>>
    /\ thr = [t \in Threads |-> ThreadIdle]
    /\ db = NoRows
    /\ paused = FALSE
    /\ queue_exec = QueueIdle
    /\ queue_events = <<>>
    /\ queue_hist = [calls |-> 0, ret |-> "Ok", restarts |-> 0,
                     cancel_in_flight |-> FALSE, started_in_row |-> 0]

\* the payloads of the executor's events; eta_remaining_ms, an estimate read
\* back from the queue, is not carried
BatchJobStartedEvent(job) ==
    [name |-> "ai_batch:job_started", job_id |-> job.id,
     operation |-> job.operation, resource_key |-> job.resource_key,
     total_items |-> Len(job.items)]

BatchItemProgressEvent(job_id, item_id, status, completed, total, error, duration_ms) ==
    [name |-> "ai_batch:item_progress", job_id |-> job_id, item_id |-> item_id,
     status |-> status, completed |-> completed, total |-> total,
     error |-> error, duration_ms |-> duration_ms]

BatchJobCompletedEvent(summary) ==
    [name |-> "ai_batch:job_completed", summary |-> summary]

\* ids a caller can name: those of the store, and one that no job has
KnownIds == {jobs[i].id : i \in DOMAIN jobs}
CallIds == KnownIds \cup {new_v4(jobs)}
ItemIds == 1..MaxItems

\* --------------------------------------------------------------- callers
\* queue.enqueue(job): the job comes from build_job; the caller leaves the id
\* empty (0) or supplies one, and a supplied id can be one the store holds.
Enqueue(supplied, resource_key, operation, overwrite_policy, n) ==
    /\ now' = now + 1
    /\ jobs' = enqueue(jobs,
                       [build_job(resource_key, operation, overwrite_policy, n)
                            EXCEPT !.id = supplied],
                       now')
    /\ hist' = [hist EXCEPT !.ret = "Ok"]
    /\ UNCHANGED <<exec, eta, events>>
    /\ UNCHANGED <<lock_vars, tauri_vars>>

CancelItem(job_id, item_id) ==
    /\ jobs' = cancel_item(jobs, job_id, item_id)
    /\ hist' = [hist EXCEPT
                  !.calls = @ + 1, !.ret = "Ok",
                  \* observation: the items this call turned from Pending into
                  \* Cancelled, named by the job's created_at and the item's id
                  !.item_cancelled =
                      IF jobs' = jobs THEN @
                      ELSE @ \cup {<<jobs[find(jobs, job_id)].created_at, item_id>>}]
    /\ UNCHANGED <<now, exec, eta, events>>
    /\ UNCHANGED <<lock_vars, tauri_vars>>

CancelJob(job_id) ==
    /\ jobs' = cancel_job(jobs, job_id, now)
    /\ hist' = IF find(jobs, job_id) = 0
               THEN [hist EXCEPT !.calls = @ + 1, !.ret = "Ok"]
               ELSE [calls |-> hist.calls + 1,
                     ret |-> "Ok",
                     summary |-> hist.summary,
                     item_cancelled |-> hist.item_cancelled,
                     cancel_in_item |->
                        \/ hist.cancel_in_item
                        \/ /\ exec.pc = "process"
                           /\ exec.job[1].id = job_id
                           /\ \E k \in DOMAIN jobs[find(jobs, job_id)].items :
                                jobs[find(jobs, job_id)].items[k].status = "Running"]
    /\ UNCHANGED <<now, exec, eta, events>>
    /\ UNCHANGED <<lock_vars, tauri_vars>>

RetryFailed(job_id) ==
    /\ jobs' = retry_failed(jobs, job_id).jobs
    /\ hist' = [hist EXCEPT !.calls = @ + 1,
                            !.ret = retry_failed(jobs, job_id).result]
    /\ UNCHANGED <<now, exec, eta, events>>
    /\ UNCHANGED <<lock_vars, tauri_vars>>

\* -------------------------------------------------------------- executor
\* run_loop: after the sleep, `if queue.has_running_job() { continue; }`
ExecHasRunningJob ==
    /\ exec.pc = "sleep"
    /\ exec' = IF has_running_job(jobs) THEN exec ELSE [exec EXCEPT !.pc = "next"]
    /\ UNCHANGED <<jobs, now, hist, eta, events>>
    /\ UNCHANGED <<lock_vars, tauri_vars>>

\* run_loop: `match queue.next_queued()`; the job is a clone.  A job taken
\* starts a new execution, whose events are collected from here on.
ExecNextQueued ==
    /\ exec.pc = "next"
    /\ IF next_queued(jobs) = None
       THEN exec' = Idle /\ UNCHANGED events
       ELSE /\ exec' = [exec EXCEPT !.pc = "mark_running", !.job = next_queued(jobs)]
            /\ events' = <<>>
    /\ UNCHANGED <<jobs, now, hist, eta>>
    /\ UNCHANGED <<lock_vars, tauri_vars>>

\* process_batch_job: queue.mark_running(&job_id), emit job_started, then the
\* loop starts
ExecMarkRunning ==
    /\ exec.pc = "mark_running"
    /\ jobs' = mark_running(jobs, exec.job[1].id, now)
    /\ events' = Append(events, BatchJobStartedEvent(exec.job[1]))
    /\ exec' = [exec EXCEPT !.pc = "check", !.idx = 1, !.completed_count = 0]
    /\ hist' = [hist EXCEPT !.cancel_in_item = FALSE]
    /\ UNCHANGED <<now, eta>>
    /\ UNCHANGED <<lock_vars, tauri_vars>>

\* process_batch_job: the head of `for item in &job.items`: queue.get_job and
\* the two cancellation tests; the loop ends when the items are exhausted
ExecCheckCancelled ==
    /\ exec.pc = "check"
    /\ LET job == exec.job[1]
           i == find(jobs, job.id)
       IN  IF exec.idx > Len(job.items)
           THEN exec' = [exec EXCEPT !.pc = "mark_completed"]
           ELSE LET item == job.items[exec.idx]
                    k == IF i = 0 THEN 0 ELSE find_item(jobs[i].items, item.id)
                IN  IF i # 0 /\ k # 0 /\ jobs[i].items[k].status = "Cancelled"
                    THEN exec' = [exec EXCEPT !.idx = @ + 1,
                                              !.completed_count = @ + 1]
                    ELSE IF i # 0 /\ jobs[i].status = "Cancelled"
                    THEN exec' = [exec EXCEPT !.pc = "mark_completed"]
                    ELSE exec' = [exec EXCEPT !.pc = "item"]
    /\ UNCHANGED <<jobs, now, hist, eta, events>>
    /\ UNCHANGED <<lock_vars, tauri_vars>>

\* mutant: the `continue` after the skip is lost, so the skipped item is
\* processed as well
ExecSkipItemFallsThrough ==
    /\ exec.pc = "item"
    /\ exec.job[1].overwrite_policy = "Skip"
    /\ jobs' = update_item(jobs, exec.job[1].id, exec.job[1].items[exec.idx].id,
                           "Skipped", Some(SkippedMsg), None)
    /\ events' = Append(events,
                    BatchItemProgressEvent(exec.job[1].id,
                                           exec.job[1].items[exec.idx].id, "Skipped",
                                           exec.completed_count + 1,
                                           Len(exec.job[1].items),
                                           Some("Skipped"), None))
    /\ exec' = [exec EXCEPT !.pc = "process", !.completed_count = @ + 1]
    /\ UNCHANGED <<now, hist, eta>>
    /\ UNCHANGED <<lock_vars, tauri_vars>>

\* process_batch_job: the skip policy hit: update_item(.., Skipped, ..), emit
\* item_progress
ExecSkipItem ==
    /\ exec.pc = "item"
    /\ exec.job[1].overwrite_policy = "Skip"
    /\ jobs' = update_item(jobs, exec.job[1].id, exec.job[1].items[exec.idx].id,
                           "Skipped", Some(SkippedMsg), None)
    /\ events' = Append(events,
                    BatchItemProgressEvent(exec.job[1].id,
                                           exec.job[1].items[exec.idx].id, "Skipped",
                                           exec.completed_count + 1,
                                           Len(exec.job[1].items),
                                           Some("Skipped"), None))
    /\ exec' = [exec EXCEPT !.pc = "check", !.idx = @ + 1, !.completed_count = @ + 1]
    /\ UNCHANGED <<now, hist, eta>>
    /\ UNCHANGED <<lock_vars, tauri_vars>>

\* process_batch_job: update_item(.., Running, None, None); handler.process
\* is then in progress
ExecStartItem ==
    /\ exec.pc = "item"
    /\ jobs' = update_item(jobs, exec.job[1].id, exec.job[1].items[exec.idx].id,
                           "Running", None, None)
    /\ exec' = [exec EXCEPT !.pc = "process"]
    /\ UNCHANGED <<now, hist, eta, events>>
    /\ UNCHANGED <<lock_vars, tauri_vars>>

\* mutant: the outcome is not written, the item is left Running
ExecFinishItemLeavesRunning(success, duration_ms) ==
    /\ exec.pc = "process"
    /\ exec' = [exec EXCEPT !.pc = "check", !.idx = @ + 1,
                            !.completed_count = @ + 1]
    /\ UNCHANGED <<jobs, now, hist, eta, events>>
    /\ UNCHANGED <<lock_vars, tauri_vars>>

\* process_batch_job: handler.process returned; update_item records the outcome
\* under the jobs lock.  When a sample is to be recorded, update_item has
\* dropped the jobs lock and not yet taken the eta lock; otherwise it returns
\* and item_progress is emitted.
ExecFinishItem(success, duration_ms) ==
    /\ exec.pc = "process"
    /\ LET job == exec.job[1]
           item == job.items[exec.idx]
           status == IF success THEN "Completed" ELSE "Failed"
           error == IF success THEN None ELSE Some("Unknown error")
           key == should_record(jobs, job.id, item.id, status, Some(duration_ms))
       IN  /\ jobs' = update_item(jobs, job.id, item.id, status, error,
                                  Some(duration_ms))
           /\ IF key # None
              THEN /\ exec' = [exec EXCEPT !.pc = "record",
                                           !.to_record = Some([key |-> key[1],
                                                               ms |-> duration_ms])]
                   /\ UNCHANGED events
              ELSE /\ exec' = [exec EXCEPT !.pc = "check", !.idx = @ + 1,
                                           !.completed_count = @ + 1]
                   /\ events' = Append(events,
                                   BatchItemProgressEvent(job.id, item.id, status,
                                                          exec.completed_count + 1,
                                                          Len(job.items), error,
                                                          Some(duration_ms)))
    /\ UNCHANGED <<now, hist, eta>>
    /\ UNCHANGED <<lock_vars, tauri_vars>>

\* update_item, second lock section: self.eta.record(..); update_item returns
\* and item_progress is emitted
ExecEtaRecord ==
    /\ exec.pc = "record"
    /\ eta' = record(eta, exec.to_record[1].key, exec.to_record[1].ms)
    /\ events' = Append(events,
                    BatchItemProgressEvent(exec.job[1].id,
                                           exec.job[1].items[exec.idx].id, "Completed",
                                           exec.completed_count + 1,
                                           Len(exec.job[1].items), None,
                                           Some(exec.to_record[1].ms)))
    /\ exec' = [exec EXCEPT !.pc = "check", !.idx = @ + 1, !.completed_count = @ + 1,
                            !.to_record = None]
    /\ UNCHANGED <<jobs, now, hist>>
    /\ UNCHANGED <<lock_vars, tauri_vars>>

\* process_batch_job: queue.mark_completed(&job_id), emit job_completed with
\* the summary returned; back to the poll loop
ExecMarkCompleted ==
    /\ exec.pc = "mark_completed"
    /\ jobs' = mark_completed(jobs, exec.job[1].id, now)
    /\ events' = IF completion_summary(jobs, exec.job[1].id) = None THEN events
                 ELSE Append(events,
                        BatchJobCompletedEvent(completion_summary(jobs, exec.job[1].id)[1]))
    /\ exec' = Idle
    /\ UNCHANGED <<now, hist, eta>>
    /\ UNCHANGED <<lock_vars, tauri_vars>>

\* Callers' inputs are bounded: the store holds at most `max_jobs` jobs, and at
\* most `max_calls` cancel / retry calls (or direct lifecycle calls) are made.
Room(max_jobs) == Len(jobs) < max_jobs
Budget(max_calls) == hist.calls < max_calls

CallEnqueue ==
    \E supplied \in {0} \cup KnownIds, rk \in ResourceKeys, op \in Operations,
       pol \in OverwritePolicies :
        Room(MaxJobs) /\ Enqueue(supplied, rk, op, pol, MaxItems)

CallCancelItem ==
    \E job_id \in CallIds, item_id \in ItemIds :
        Budget(MaxCalls) /\ CancelItem(job_id, item_id)

CallCancelJob == \E job_id \in CallIds : Budget(MaxCalls) /\ CancelJob(job_id)

CallRetryFailed == \E job_id \in CallIds : Budget(MaxCalls) /\ RetryFailed(job_id)

\* the handler's successes are bounded: at most MaxSamples samples per EtaKey
SamplesLeft(key) ==
    sample_count(eta, key.resource_key, key.operation, key.size_bucket) < MaxSamples

ExecHandlerReturns ==
    \E success \in BOOLEAN, d \in ElapsedMs :
        /\ exec.pc = "process"
        /\ success =>
              LET key == should_record(jobs, exec.job[1].id,
                                       exec.job[1].items[exec.idx].id,
                                       "Completed", Some(d))
              IN  key = None \/ SamplesLeft(key[1])
        /\ ExecFinishItem(success, d)

Next ==
    \/ CallEnqueue
    \/ CallCancelItem
    \/ CallCancelJob
    \/ CallRetryFailed
    \/ ExecHasRunningJob
    \/ ExecNextQueued
    \/ ExecMarkRunning
    \/ ExecCheckCancelled
    \/ ExecSkipItem
    \/ ExecStartItem
    \/ ExecHandlerReturns
    \/ ExecEtaRecord
    \/ ExecMarkCompleted

Spec == Init /\ [][Next]_vars

\* The executor is one spawned task (spawn_with_interval): the runtime keeps
\* scheduling it, its sleep ends, and every handler.process call returns.  The
\* callers are under no obligation to call.
ExecStep ==
    \/ ExecHasRunningJob
    \/ ExecNextQueued
    \/ ExecMarkRunning
    \/ ExecCheckCancelled
    \/ ExecSkipItem
    \/ ExecStartItem
    \/ ExecHandlerReturns
    \/ ExecEtaRecord
    \/ ExecMarkCompleted

FairSpec == Spec /\ WF_vars(ExecStep)

\* ------------------------------------------------- direct use of the store
\* The BatchQueue methods are all `pub`: a caller (the crate's tests do) can
\* drive a job through its lifecycle itself, with no executor running.
MarkRunning(job_id) ==
    /\ jobs' = mark_running(jobs, job_id, now)
    /\ hist' = [hist EXCEPT !.calls = @ + 1, !.ret = "Ok"]
    /\ UNCHANGED <<now, exec, eta, events>>
    /\ UNCHANGED <<lock_vars, tauri_vars>>

UpdateItem(job_id, item_id, status, error, duration_ms) ==
    /\ jobs' = update_item(jobs, job_id, item_id, status, error, duration_ms)
    /\ eta' = update_item_eta(eta, jobs, job_id, item_id, status, duration_ms)
    /\ hist' = [hist EXCEPT !.calls = @ + 1, !.ret = "Ok"]
    /\ UNCHANGED <<now, exec, events>>
    /\ UNCHANGED <<lock_vars, tauri_vars>>

MarkCompleted(job_id) ==
    /\ jobs' = mark_completed(jobs, job_id, now)
    /\ hist' = [hist EXCEPT !.calls = @ + 1, !.ret = "Ok",
                            !.summary = completion_summary(jobs, job_id)]
    /\ UNCHANGED <<now, exec, eta, events>>
    /\ UNCHANGED <<lock_vars, tauri_vars>>

\* the (status, error, duration_ms) triples the executor and the tests pass
ItemUpdates ==
    {<<"Running", None, None>>,
     <<"Completed", None, Some(5)>>,
     <<"Failed", Some("timeout"), Some(2)>>}

StoreEnqueue ==
    \E supplied \in {0} \cup KnownIds, rk \in ResourceKeys, op \in Operations :
        Room(StoreMaxJobs) /\ Enqueue(supplied, rk, op, "Skip", MaxItems)

StoreMarkRunning ==
    \E job_id \in CallIds : Budget(StoreMaxCalls) /\ MarkRunning(job_id)

StoreUpdateItem ==
    \E job_id \in CallIds, item_id \in ItemIds, u \in ItemUpdates :
        Budget(StoreMaxCalls) /\ UpdateItem(job_id, item_id, u[1], u[2], u[3])

StoreMarkCompleted ==
    \E job_id \in CallIds : Budget(StoreMaxCalls) /\ MarkCompleted(job_id)

StoreCancelItem ==
    \E job_id \in CallIds, item_id \in ItemIds :
        Budget(StoreMaxCalls) /\ CancelItem(job_id, item_id)

StoreCancelJob == \E job_id \in CallIds : Budget(StoreMaxCalls) /\ CancelJob(job_id)

StoreRetryFailed ==
    \E job_id \in CallIds : Budget(StoreMaxCalls) /\ RetryFailed(job_id)

StoreNext ==
    \/ StoreEnqueue
    \/ StoreMarkRunning
    \/ StoreUpdateItem
    \/ StoreMarkCompleted
    \/ StoreCancelItem
    \/ StoreCancelJob
    \/ StoreRetryFailed

StoreSpec == Init /\ [][StoreNext]_vars

\* ------------------------------------------------ the two locks of BatchQueue
\* BatchQueue has two Mutexes: `jobs` and, inside EtaTracker, `data` ("eta").
\* Here update_item and estimate_remaining_ms are followed lock by lock: a
\* step is taken where a thread acquires a lock, and where it acts and
\* releases.
LockFree(l) == \A t \in Threads : l \notin thr[t].held

\* update_item: `self.jobs.lock()`
UpdateItemLock(t, job_id, item_id, status, error, duration_ms) ==
    /\ thr[t].pc = "idle"
    /\ LockFree("jobs")
    /\ thr' = [thr EXCEPT ![t] =
                 [pc |-> "update_item", held |-> {"jobs"},
                  args |-> Some([job_id |-> job_id, item_id |-> item_id,
                                 status |-> status, error |-> error,
                                 duration_ms |-> duration_ms]),
                  ret |-> None]]
    /\ hist' = [hist EXCEPT !.calls = @ + 1]
    /\ UNCHANGED <<jobs, now, exec, eta, events, tauri_vars>>

\* update_item: the assignments under the jobs lock; then either the guard is
\* dropped at the return, or `drop(jobs)` before the sample is recorded
UpdateItemWrite(t) ==
    /\ thr[t].pc = "update_item"
    /\ LET a == thr[t].args[1]
           key == should_record(jobs, a.job_id, a.item_id, a.status, a.duration_ms)
       IN  /\ jobs' = update_item(jobs, a.job_id, a.item_id, a.status, a.error,
                                  a.duration_ms)
           /\ thr' = [thr EXCEPT ![t] =
                        IF key = None
                        THEN [ThreadIdle EXCEPT !.ret = Some("Ok")]
                        ELSE [pc |-> "record", held |-> {},
                              args |-> Some([key |-> key[1],
                                             ms |-> a.duration_ms[1]]),
                              ret |-> None]]
    /\ UNCHANGED <<now, exec, hist, eta, events, tauri_vars>>

\* EtaTracker::record: `self.data.lock()`
EtaRecordLock(t) ==
    /\ thr[t].pc = "record"
    /\ LockFree("eta")
    /\ thr' = [thr EXCEPT ![t].pc = "recording", ![t].held = @ \cup {"eta"}]
    /\ UNCHANGED <<jobs, now, exec, hist, eta, events, tauri_vars>>

\* EtaTracker::record: the entry is updated, the guard dropped, update_item
\* returns
EtaRecord(t) ==
    /\ thr[t].pc = "recording"
    /\ eta' = record(eta, thr[t].args[1].key, thr[t].args[1].ms)
    /\ thr' = [thr EXCEPT ![t] = [ThreadIdle EXCEPT !.ret = Some("Ok")]]
    /\ UNCHANGED <<jobs, now, exec, hist, events, tauri_vars>>

\* estimate_remaining_ms: `let jobs = self.jobs.lock().ok()?`
EstimateLock(t, job_id) ==
    /\ thr[t].pc = "idle"
    /\ LockFree("jobs")
    /\ thr' = [thr EXCEPT ![t] =
                 [pc |-> "estimate_remaining_ms", held |-> {"jobs"},
                  args |-> Some([job_id |-> job_id]), ret |-> None]]
    /\ hist' = [hist EXCEPT !.calls = @ + 1]
    /\ UNCHANGED <<jobs, now, exec, eta, events, tauri_vars>>

\* estimate_remaining_ms: find the job (`?` returns None), collect the remaining
\* buckets (none left: Some(0)), else call self.eta.estimate_remaining, which
\* starts with `self.data.lock()`; the `jobs` guard lives to the end of the
\* function
EstimateFind(t) ==
    /\ thr[t].pc = "estimate_remaining_ms"
    /\ LET i == find(jobs, thr[t].args[1].job_id)
           remaining_buckets == remaining_from(jobs[i].items, 1)
       IN  IF i = 0
           THEN thr' = [thr EXCEPT ![t] = [ThreadIdle EXCEPT !.ret = Some(None)]]
           ELSE IF remaining_buckets = <<>>
           THEN thr' = [thr EXCEPT ![t] = [ThreadIdle EXCEPT !.ret = Some(Some(0))]]
           ELSE /\ LockFree("eta")
                /\ thr' = [thr EXCEPT ![t] =
                             [pc |-> "estimate_remaining",
                              held |-> thr[t].held \cup {"eta"},
                              args |-> Some([resource_key |-> jobs[i].resource_key,
                                             operation |-> jobs[i].operation,
                                             remaining_buckets |-> remaining_buckets]),
                              ret |-> None]]
    /\ UNCHANGED <<jobs, now, exec, hist, eta, events, tauri_vars>>

\* EtaTracker::estimate_remaining: the estimate; both guards are dropped as
\* the calls return
EstimateReturn(t) ==
    /\ thr[t].pc = "estimate_remaining"
    /\ LET a == thr[t].args[1]
       IN  thr' = [thr EXCEPT ![t] =
                     [ThreadIdle EXCEPT !.ret =
                         Some(estimate_remaining(eta, a.resource_key, a.operation,
                                                 a.remaining_buckets))]]
    /\ UNCHANGED <<jobs, now, exec, hist, eta, events, tauri_vars>>

\* process_batch_job, one item: `queue.update_item(&job_id, &item.id, Running,
\* None, None)` takes the jobs lock
ItemRunningLock(t, job_id, item_id) ==
    /\ thr[t].pc = "idle"
    /\ LockFree("jobs")
    /\ thr' = [thr EXCEPT ![t] =
                 [pc |-> "mark_item_running", held |-> {"jobs"},
                  args |-> Some([job_id |-> job_id, item_id |-> item_id]),
                  ret |-> None]]
    /\ hist' = [hist EXCEPT !.calls = @ + 1]
    /\ UNCHANGED <<jobs, now, exec, eta, events, tauri_vars>>

\* mutant: the guard taken for the Running mark lives on into handler.process
ItemRunningWriteKeepsGuard(t) ==
    /\ thr[t].pc = "mark_item_running"
    /\ jobs' = update_item(jobs, thr[t].args[1].job_id, thr[t].args[1].item_id,
                           "Running", None, None)
    /\ thr' = [thr EXCEPT ![t].pc = "process"]
    /\ UNCHANGED <<now, exec, hist, eta, events, tauri_vars>>

\* the item is marked Running, update_item returns (its guard is a local of
\* update_item and is dropped there), and `handler.process(..).await` begins
ItemRunningWrite(t) ==
    /\ thr[t].pc = "mark_item_running"
    /\ jobs' = update_item(jobs, thr[t].args[1].job_id, thr[t].args[1].item_id,
                           "Running", None, None)
    /\ thr' = [thr EXCEPT ![t].pc = "process", ![t].held = {}]
    /\ UNCHANGED <<now, exec, hist, eta, events, tauri_vars>>

\* handler.process has returned; `queue.update_item(&job_id, &item.id, status,
\* error, Some(duration_ms))` takes the jobs lock
HandlerReturns(t, success, duration_ms) ==
    /\ thr[t].pc = "process"
    /\ LockFree("jobs")
    /\ thr' = [thr EXCEPT ![t] =
                 [pc |-> "update_item", held |-> thr[t].held \cup {"jobs"},
                  args |-> Some([job_id |-> thr[t].args[1].job_id,
                                 item_id |-> thr[t].args[1].item_id,
                                 status |-> IF success THEN "Completed" ELSE "Failed",
                                 error |-> IF success THEN None
                                           ELSE Some("Unknown error"),
                                 duration_ms |-> Some(duration_ms)]),
                  ret |-> None]]
    /\ UNCHANGED <<jobs, now, exec, hist, eta, events, tauri_vars>>

LockEnqueue ==
    \E rk \in ResourceKeys, op \in Operations :
        LockFree("jobs") /\ Room(LockMaxJobs) /\ Enqueue(0, rk, op, "Skip", MaxItems)

LockUpdateItem ==
    \E t \in Threads, job_id \in CallIds, item_id \in ItemIds, u \in ItemUpdates :
        Budget(LockMaxCalls) /\ UpdateItemLock(t, job_id, item_id, u[1], u[2], u[3])

LockUpdateItemWrite == \E t \in Threads : UpdateItemWrite(t)

LockEtaRecordLock == \E t \in Threads : EtaRecordLock(t)

LockEtaRecord == \E t \in Threads : EtaRecord(t)

LockEstimate ==
    \E t \in Threads, job_id \in CallIds : Budget(LockMaxCalls) /\ EstimateLock(t, job_id)

LockEstimateFind == \E t \in Threads : EstimateFind(t)

LockEstimateReturn == \E t \in Threads : EstimateReturn(t)

LockItemRunning ==
    \E t \in Threads, job_id \in KnownIds, item_id \in ItemIds :
        Budget(LockMaxCalls) /\ ItemRunningLock(t, job_id, item_id)

LockItemRunningWrite == \E t \in Threads : ItemRunningWrite(t)

LockHandlerReturns ==
    \E t \in Threads, success \in BOOLEAN, duration_ms \in ElapsedMs :
        HandlerReturns(t, success, duration_ms)

LockNext ==
    \/ LockItemRunning
    \/ LockItemRunningWrite
    \/ LockHandlerReturns
    \/ LockEnqueue
    \/ LockUpdateItem
    \/ LockUpdateItemWrite
    \/ LockEtaRecordLock
    \/ LockEtaRecord
    \/ LockEstimate
    \/ LockEstimateFind
    \/ LockEstimateReturn

LockSpec == Init /\ [][LockNext]_vars

\* ------------------------------------------------------ the reorder pass
\* reorder_queued_jobs is handed the whole Vec at the end of enqueue and of
\* retry_failed.  Here it is applied, more than once in a row, to lists of
\* every shape: any length up to ReorderMaxJobs, Queued and Running jobs in
\* any slots, any resource keys, ids distinct or not, marked or not.
\* created_at is the slot the job starts in.
JobShapes ==
    [resource_key : ResourceKeys, status : {"Queued", "Running"},
     id : 1..ReorderMaxJobs, reordered : BOOLEAN]

shaped_job(shape, slot) ==
    [build_job(shape.resource_key, "tag", "Skip", 1) EXCEPT
        !.id = shape.id,
        !.status = shape.status,
        !.created_at = slot,
        !.reordered = shape.reordered,
        !.reorder_note = IF shape.reordered THEN Some(ReorderNote) ELSE None]

ReorderInit ==
    /\ \E n \in 0..ReorderMaxJobs : \E shapes \in [1..n -> JobShapes] :
            jobs = [i \in 1..n |-> shaped_job(shapes[i], i)]
    /\ now = 0
    /\ exec = Idle
    /\ hist = [calls |-> 0, ret |-> "Ok", cancel_in_item |-> FALSE,
               item_cancelled |-> {},
               summary |-> None]
    /\ eta = NoSamples
    /\ events = <<>>
    /\ thr = [t \in Threads |-> ThreadIdle]
    /\ db = NoRows
    /\ paused = FALSE
    /\ queue_exec = QueueIdle
    /\ queue_events = <<>>
    /\ queue_hist = [calls |-> 0, ret |-> "Ok", restarts |-> 0,
                     cancel_in_flight |-> FALSE, started_in_row |-> 0]

ReorderPass ==
    /\ Budget(ReorderMaxPasses)
    /\ jobs' = reorder_queued_jobs(jobs)
    /\ hist' = [hist EXCEPT !.calls = @ + 1]
    /\ UNCHANGED <<now, exec, eta, events, lock_vars, tauri_vars>>

ReorderNext == ReorderPass

ReorderSpec == ReorderInit /\ [][ReorderNext]_vars

\* ------------------------------------------------- direct use of EtaTracker
\* EtaTracker is `pub`, and so are record and estimate_remaining: a caller (the
\* crate's tests do) feeds it samples and asks for estimates.  Each call takes
\* the `data` lock once, so each is one step.
TrackerRecord(resource_key, operation, size_bucket, duration_ms) ==
    /\ eta' = record(eta,
                     [resource_key |-> resource_key, operation |-> operation,
                      size_bucket |-> size_bucket],
                     duration_ms)
    /\ hist' = [hist EXCEPT !.calls = @ + 1]
    /\ UNCHANGED <<jobs, now, exec, events, lock_vars, tauri_vars>>

\* the call's arguments and its return value are kept on the calling thread
TrackerEstimateRemaining(t, resource_key, operation, remaining_buckets) ==
    /\ thr[t].pc = "idle"
    /\ thr' = [thr EXCEPT ![t] =
                 [ThreadIdle EXCEPT
                    !.args = Some([resource_key |-> resource_key,
                                   operation |-> operation,
                                   remaining_buckets |-> remaining_buckets]),
                    !.ret = Some(estimate_remaining(eta, resource_key, operation,
                                                    remaining_buckets))]]
    /\ UNCHANGED <<jobs, now, exec, hist, eta, events, tauri_vars>>

\* the bucket lists a caller passes: every list of at most MaxBuckets buckets
BucketLists == UNION {[1..n -> SizeBuckets] : n \in 0..MaxBuckets}

EtaCallRecord ==
    \E rk \in ResourceKeys, op \in Operations, b \in SizeBuckets, d \in DurationsMs :
        Budget(EtaMaxCalls) /\ TrackerRecord(rk, op, b, d)

EtaCallEstimateRemaining ==
    \E rk \in ResourceKeys, op \in Operations, buckets \in BucketLists :
        TrackerEstimateRemaining(1, rk, op, buckets)

EtaNext ==
    \/ EtaCallRecord
    \/ EtaCallEstimateRemaining

EtaSpec == Init /\ [][EtaNext]_vars

\* ============================================================ Tauri-Queue
\* The store is the SQLite table queue_jobs, a map from the PRIMARY KEY id to
\* the row; NULL is None.  Every db function runs while the caller holds the
\* Mutex<Connection>, so each is one step.
batch_store == <<jobs, exec, hist, eta, events>>

JobIds == 1..TauriMaxJobs

\* QueuePriority::as_i32
as_i32(priority) ==
    CASE priority = "High" -> 1
      [] priority = "Normal" -> 2
      [] OTHER -> 3

QueuePriorities == {"High", "Normal", "Low"}

\* the priorities jobs are added with: QueueJob::new's Normal, and High
AddPriorities == {"Normal", "High"}

\* the job types a caller can add; the executor is spawned for JobTypes "H",
\* and serde_json::from_value::<H> fails on the data of another type
JobTypes == {"H", "Other"}

\* what JobHandler::execute can return
HandlerResults == {"success", "failure", "Cancelled", "Execution"}

\* Display of the QueueError returned by the handler (error.rs)
to_string(e) ==
    IF e = "Cancelled" THEN "Job was cancelled" ELSE "Job execution failed: boom"

\* db::insert_job: INSERT .. VALUES (?1, ?2, 'pending', ?3); the PRIMARY KEY
\* rejects an id the table holds
insert_job(rows, job_id, priority, data, t) ==
    IF job_id \in DOMAIN rows
    THEN [result |-> "Err", db |-> rows]
    ELSE [result |-> "Ok",
          db |-> [id \in DOMAIN rows \cup {job_id} |->
                    IF id = job_id
                    THEN [priority |-> priority, status |-> "pending",
                          data_json |-> data, created_at |-> t,
                          started_at |-> None, completed_at |-> None,
                          error_message |-> None]
                    ELSE rows[id]]]

\* mutant: ORDER BY created_at ASC alone, the priority is not looked at
next_pending_oldest_first(rows) ==
    {id \in DOMAIN rows :
        /\ rows[id].status = "pending"
        /\ \A other \in DOMAIN rows :
            rows[other].status = "pending"
            => rows[id].created_at <= rows[other].created_at}

\* db::get_next_pending: WHERE status = 'pending' ORDER BY priority ASC,
\* created_at ASC LIMIT 1; rows that tie on both come in an order SQL leaves
\* open, so every first-ranked row is a possible answer
next_pending(rows) ==
    {id \in DOMAIN rows :
        /\ rows[id].status = "pending"
        /\ \A other \in DOMAIN rows :
            rows[other].status = "pending"
            => \/ rows[id].priority < rows[other].priority
               \/ /\ rows[id].priority = rows[other].priority
                  /\ rows[id].created_at <= rows[other].created_at}

\* db::mark_processing: UPDATE .. SET status = 'processing', started_at WHERE id
mark_processing(rows, job_id, t) ==
    [id \in DOMAIN rows |->
        IF id = job_id
        THEN [rows[id] EXCEPT !.status = "processing", !.started_at = Some(t)]
        ELSE rows[id]]

\* db::mark_completed: UPDATE .. SET status = 'completed', completed_at WHERE id
db_mark_completed(rows, job_id, t) ==
    [id \in DOMAIN rows |->
        IF id = job_id
        THEN [rows[id] EXCEPT !.status = "completed", !.completed_at = Some(t)]
        ELSE rows[id]]

\* db::mark_failed: UPDATE .. SET status = 'failed', completed_at, error_message
mark_failed(rows, job_id, error, t) ==
    [id \in DOMAIN rows |->
        IF id = job_id
        THEN [rows[id] EXCEPT !.status = "failed", !.completed_at = Some(t),
                              !.error_message = Some(error)]
        ELSE rows[id]]

\* db::is_cancelled(..).unwrap_or(false): a missing row is an Err, so false
is_cancelled(rows, job_id) ==
    job_id \in DOMAIN rows /\ rows[job_id].status = "cancelled"

\* mutant: the row is cancelled whatever its status
db_cancel_job_any_status(rows, job_id, t) ==
    IF job_id \notin DOMAIN rows THEN [result |-> "Err: not found", db |-> rows]
    ELSE [result |-> "Ok",
          db |-> [rows EXCEPT ![job_id].status = "cancelled",
                              ![job_id].completed_at = Some(t)]]

\* db::cancel_job: an Err when the row is missing ("Job '..' not found") or not
\* pending / processing ("Job '..' is not cancellable (status: ..)")
db_cancel_job(rows, job_id, t) ==
    IF job_id \notin DOMAIN rows THEN [result |-> "Err: not found", db |-> rows]
    ELSE IF rows[job_id].status \notin {"pending", "processing"}
    THEN [result |-> "Err: not cancellable", db |-> rows]
    ELSE [result |-> "Ok",
          db |-> [id \in DOMAIN rows |->
                    IF id = job_id /\ rows[id].status \in {"pending", "processing"}
                    THEN [rows[id] EXCEPT !.status = "cancelled",
                                          !.completed_at = Some(t)]
                    ELSE rows[id]]]

\* mutant: the interrupted rows are deleted instead of requeued
requeue_interrupted_deleting(rows) ==
    [id \in {r \in DOMAIN rows : rows[r].status # "processing"} |-> rows[id]]

\* db::requeue_interrupted: UPDATE .. SET status = 'pending'
\* WHERE status = 'processing'
requeue_interrupted(rows) ==
    [id \in DOMAIN rows |->
        IF rows[id].status = "processing"
        THEN [rows[id] EXCEPT !.status = "pending"]
        ELSE rows[id]]

\* QueueManager::reorder: only a pending job; db::update_priority
reorder(rows, job_id, new_priority) ==
    IF job_id \notin DOMAIN rows THEN [result |-> "Err", db |-> rows]
    ELSE IF rows[job_id].status # "pending" THEN [result |-> "Err", db |-> rows]
    ELSE [result |-> "Ok",
          db |-> [rows EXCEPT ![job_id].priority = as_i32(new_priority)]]

\* ------------------------------------------------- QueueManager's callers
\* QueueManager::add: QueueJob::new gives a fresh uuid, with_id any id; the
\* table's created_at is CURRENT_TIMESTAMP, whole seconds, so two adds can
\* fall in the same second
QueueAdd(job_id, priority, job_type, tick) ==
    /\ now' = now + tick
    /\ db' = insert_job(db, job_id, as_i32(priority), job_type, now').db
    /\ queue_hist' = [queue_hist EXCEPT
                        !.ret = insert_job(db, job_id, as_i32(priority),
                                           job_type, now').result]
    /\ UNCHANGED <<paused, queue_exec, queue_events, batch_store, lock_vars>>

\* QueueManager::cancel
QueueCancel(job_id) ==
    /\ db' = db_cancel_job(db, job_id, now).db
    /\ queue_hist' = [queue_hist EXCEPT !.calls = @ + 1,
                                        !.ret = db_cancel_job(db, job_id, now).result]
    /\ UNCHANGED <<now, paused, queue_exec, queue_events, batch_store, lock_vars>>

\* QueueManager::reorder
QueueReorder(job_id, new_priority) ==
    /\ db' = reorder(db, job_id, new_priority).db
    /\ queue_hist' = [queue_hist EXCEPT !.calls = @ + 1,
                                        !.ret = reorder(db, job_id, new_priority).result]
    /\ UNCHANGED <<now, paused, queue_exec, queue_events, batch_store, lock_vars>>

\* QueueManager::pause / resume
QueuePause ==
    /\ paused' = TRUE
    /\ queue_hist' = [queue_hist EXCEPT !.calls = @ + 1, !.ret = "Ok"]
    /\ UNCHANGED <<now, db, queue_exec, queue_events, batch_store, lock_vars>>

QueueResume ==
    /\ paused' = FALSE
    /\ queue_hist' = [queue_hist EXCEPT !.calls = @ + 1, !.ret = "Ok"]
    /\ UNCHANGED <<now, db, queue_exec, queue_events, batch_store, lock_vars>>

\* The process dies and is started again on the same database file:
\* QueueManager::new opens it, requeues the interrupted jobs and builds a new
\* executor (not paused, run_loop at its start)
QueueRestart ==
    /\ db' = requeue_interrupted(db)
    /\ paused' = FALSE
    /\ queue_exec' = QueueIdle
    /\ queue_events' = <<>>
    /\ queue_hist' = [queue_hist EXCEPT !.calls = @ + 1, !.ret = "Ok",
                                        !.restarts = @ + 1,
                                        !.cancel_in_flight = FALSE,
                                        !.started_in_row = 0]
    /\ UNCHANGED <<now, batch_store, lock_vars>>

\* ---------------------------------------------------------- QueueExecutor
\* run_loop: after the sleep, the paused test and the consecutive limit; the
\* limit reached, the loop sleeps for the cooldown and resets the count
QueueExecPoll ==
    /\ queue_exec.pc = "sleep"
    /\ IF paused THEN UNCHANGED <<queue_exec, queue_hist>>
       ELSE IF MaxConsecutive > 0 /\ queue_exec.consecutive_count >= MaxConsecutive
       THEN /\ queue_exec' = [queue_exec EXCEPT !.consecutive_count = 0]
            /\ queue_hist' = [queue_hist EXCEPT !.started_in_row = 0]
       ELSE /\ queue_exec' = [queue_exec EXCEPT !.pc = "next"]
            /\ UNCHANGED queue_hist
    /\ UNCHANGED <<now, db, paused, queue_events, batch_store, lock_vars>>

\* run_loop: db::get_next_pending under the lock; Ok(None) resets the count
QueueExecNextPending ==
    /\ queue_exec.pc = "next"
    /\ IF next_pending(db) = {}
       THEN /\ queue_exec' = [queue_exec EXCEPT !.pc = "sleep",
                                                !.consecutive_count = 0]
            /\ queue_hist' = [queue_hist EXCEPT !.started_in_row = 0]
            /\ UNCHANGED queue_events
       ELSE \E job_id \in next_pending(db) :
            /\ queue_exec' = [queue_exec EXCEPT !.pc = "picked",
                                                !.job_id = Some(job_id),
                                                !.job_data = Some(db[job_id].data_json),
                                                !.result = None]
            /\ queue_events' = <<>>
            /\ queue_hist' = [queue_hist EXCEPT !.cancel_in_flight = FALSE]
    /\ UNCHANGED <<now, db, paused, batch_store, lock_vars>>

\* run_loop: serde_json::from_value fails: db::mark_failed, emit job_failed
QueueExecDeserializeFails ==
    /\ queue_exec.pc = "picked"
    /\ queue_exec.job_data[1] # "H"
    /\ db' = mark_failed(db, queue_exec.job_id[1], "Deserialization failed", now)
    /\ queue_events' = Append(queue_events,
                          [name |-> "queue:job_failed", job_id |-> queue_exec.job_id[1],
                           error |-> "Deserialization failed"])
    /\ queue_exec' = [queue_exec EXCEPT !.pc = "sleep"]
    /\ UNCHANGED <<now, paused, queue_hist, batch_store, lock_vars>>

\* process_job: db::mark_processing, emit job_started; the handler starts
QueueExecMarkProcessing ==
    /\ queue_exec.pc = "picked"
    /\ queue_exec.job_data[1] = "H"
    /\ db' = mark_processing(db, queue_exec.job_id[1], now)
    /\ queue_events' = Append(queue_events,
                          [name |-> "queue:job_started", job_id |-> queue_exec.job_id[1]])
    /\ queue_exec' = [queue_exec EXCEPT !.pc = "execute"]
    /\ queue_hist' = [queue_hist EXCEPT !.started_in_row = @ + 1]
    /\ UNCHANGED <<now, paused, batch_store, lock_vars>>

\* process_job: job_handler.execute returned.  Ok(success): mark_completed,
\* emit job_completed; Ok(failure): mark_failed, emit job_failed; both return
\* Ok to run_loop, which counts the job.  Err(e): mark_failed, and Err(e) goes
\* back to run_loop.
QueueExecHandlerReturns(r) ==
    /\ queue_exec.pc = "execute"
    /\ LET job_id == queue_exec.job_id[1]
       IN  CASE r = "success" ->
                 /\ db' = db_mark_completed(db, job_id, now)
                 /\ queue_events' = Append(queue_events,
                                       [name |-> "queue:job_completed",
                                        job_id |-> job_id, output |-> None])
                 /\ queue_exec' = [queue_exec EXCEPT !.pc = "sleep",
                                                     !.consecutive_count = @ + 1]
                 /\ UNCHANGED queue_hist
             [] r = "failure" ->
                 /\ db' = mark_failed(db, job_id, "Unknown error", now)
                 /\ queue_events' = Append(queue_events,
                                       [name |-> "queue:job_failed",
                                        job_id |-> job_id, error |-> "Unknown error"])
                 /\ queue_exec' = [queue_exec EXCEPT !.pc = "sleep",
                                                     !.consecutive_count = @ + 1]
                 /\ UNCHANGED queue_hist
             [] OTHER ->
                 /\ db' = mark_failed(db, job_id, to_string(r), now)
                 /\ queue_exec' = [queue_exec EXCEPT !.pc = "was_cancelled",
                                                     !.result = Some(r)]
                 /\ queue_hist' = [queue_hist EXCEPT !.cancel_in_flight =
                                      r = "Cancelled" /\ is_cancelled(db, job_id)]
                 /\ UNCHANGED queue_events
    /\ UNCHANGED <<now, paused, batch_store, lock_vars>>

\* run_loop, Err(e): `was_cancelled` is read under the lock; if so, emit
\* job_cancelled
QueueExecWasCancelled ==
    /\ queue_exec.pc = "was_cancelled"
    /\ IF is_cancelled(db, queue_exec.job_id[1])
       THEN /\ queue_events' = Append(queue_events,
                                  [name |-> "queue:job_cancelled",
                                   job_id |-> queue_exec.job_id[1]])
            /\ queue_exec' = [queue_exec EXCEPT !.pc = "sleep"]
       ELSE /\ queue_exec' = [queue_exec EXCEPT !.pc = "mark_failed"]
            /\ UNCHANGED queue_events
    /\ UNCHANGED <<now, db, paused, queue_hist, batch_store, lock_vars>>

\* run_loop, Err(e), not cancelled: db::mark_failed under the lock, emit
\* job_failed
QueueExecMarkFailed ==
    /\ queue_exec.pc = "mark_failed"
    /\ db' = mark_failed(db, queue_exec.job_id[1], to_string(queue_exec.result[1]), now)
    /\ queue_events' = Append(queue_events,
                          [name |-> "queue:job_failed", job_id |-> queue_exec.job_id[1],
                           error |-> to_string(queue_exec.result[1])])
    /\ queue_exec' = [queue_exec EXCEPT !.pc = "sleep"]
    /\ UNCHANGED <<now, paused, queue_hist, batch_store, lock_vars>>

QueueBudget == queue_hist.calls < TauriMaxCalls

TauriAdd ==
    \E job_id \in JobIds, priority \in AddPriorities, job_type \in JobTypes,
       tick \in {0, 1} :
        \* the clock is followed only from one row's creation to the next
        /\ job_id \in DOMAIN db => tick = 0
        /\ QueueAdd(job_id, priority, job_type, tick)

TauriCancel == \E job_id \in JobIds : QueueBudget /\ QueueCancel(job_id)

TauriReorder ==
    \E job_id \in JobIds, priority \in QueuePriorities :
        QueueBudget /\ QueueReorder(job_id, priority)

TauriPause == QueueBudget /\ QueuePause

TauriResume == QueueBudget /\ QueueResume

TauriRestart == QueueBudget /\ QueueRestart

TauriHandlerReturns == \E r \in HandlerResults : QueueExecHandlerReturns(r)

TauriNext ==
    \/ TauriAdd
    \/ TauriCancel
    \/ TauriReorder
    \/ TauriPause
    \/ TauriResume
    \/ TauriRestart
    \/ QueueExecPoll
    \/ QueueExecNextPending
    \/ QueueExecDeserializeFails
    \/ QueueExecMarkProcessing
    \/ TauriHandlerReturns
    \/ QueueExecWasCancelled
    \/ QueueExecMarkFailed

TauriSpec == Init /\ [][TauriNext]_vars

\* =================================================================== claims
RunningJobs == {i \in DOMAIN jobs : jobs[i].status = "Running"}
UniqueIds == \A i, k \in DOMAIN jobs : jobs[i].id = jobs[k].id => i = k

\* the slot, after a step, of the job that was in slot i before it (created_at
\* is distinct per job here: the clock ticks at every enqueue)
SlotAfter(i) == CHOOSE k \in DOMAIN jobs' : jobs'[k].created_at = jobs[i].created_at

\* C1: with one executor loop and callers of enqueue, cancel_item, cancel_job
\* and retry_failed interleaved in any way, at most one job is Running.
C1_AtMostOneRunning == Cardinality(RunningJobs) <= 1

\* C1 witness: the executor is inside a handler call for a Running job while
\* another job waits Queued.
C1_Witness ==
    /\ exec.pc = "process"
    /\ \E i, k \in DOMAIN jobs :
        i # k /\ jobs[i].status = "Running" /\ jobs[k].status = "Queued"

\* C2: after enqueue calls only, the Queued jobs in list order are sorted
\* ascending by (resource_key, created_at); BatchJob has no priority field, so
\* all jobs rank equal on priority.
KeyLeq(a, b) ==
    \/ a.resource_key < b.resource_key
    \/ a.resource_key = b.resource_key /\ a.created_at <= b.created_at

QueuedSorted ==
    LET qi == queued_indices(jobs)
    IN  \A a, b \in DOMAIN qi : a < b => KeyLeq(jobs[qi[a]], jobs[qi[b]])

C2_QueuedSortedAfterEnqueues == hist.calls = 0 => QueuedSorted

\* C3: an enqueue, and a retry_failed of another job, leave every job that is
\* not Queued in its slot with all its fields unchanged.
C3_NonQueuedUntouched ==
    [][\A i \in DOMAIN jobs :
        ( /\ jobs[i].status # "Queued"
          /\ \/ Len(jobs') = Len(jobs) + 1
             \/ \E job_id \in CallIds : find(jobs, job_id) # i /\ RetryFailed(job_id) )
        => jobs'[i] = jobs[i]]_vars

\* C3 witness: a job is Running in its slot while a later-enqueued Queued job
\* carries the mark of a reorder pass that permuted the Queued jobs.
C3_Witness ==
    \E i, k \in DOMAIN jobs :
        /\ jobs[i].status = "Running"
        /\ jobs[k].status = "Queued"
        /\ jobs[k].reordered
        /\ jobs[k].created_at > jobs[i].started_at[1]

\* C4: a job that cancel_job has made Cancelled stays Cancelled in every step
\* that is not a retry_failed of that job.
C4_CancelledStays ==
    [][\A i \in DOMAIN jobs :
        ( /\ jobs[i].status = "Cancelled"
          /\ ~ \E job_id \in CallIds : jobs[i].id = job_id /\ RetryFailed(job_id) )
        => jobs'[i].status = "Cancelled"]_vars

\* C5: the executor starts no item (marks it Running and calls handler.process)
\* of a job on which cancel_job has returned with status Cancelled.
C5_NoItemStartedAfterCancel ==
    [][(exec.pc = "item" /\ exec'.pc = "process")
        => LET i == find(jobs, exec.job[1].id)
           IN  i # 0 => jobs[i].status # "Cancelled"]_vars

\* C6: when cancel_job was called on the executor's job while one of its items
\* was Running, the run ends with the job Cancelled.
C6_CancelledAfterRunningItem ==
    [][(exec.pc = "mark_completed" /\ exec'.pc = "sleep" /\ hist.cancel_in_item)
        => LET i == find(jobs', exec.job[1].id)
           IN  i # 0 /\ jobs'[i].status = "Cancelled"]_vars

\* C7: the executor starts no item whose stored status is Completed (ids
\* being distinct, so that the job found by id is the job picked).
C7_CompletedNotReprocessed ==
    [][(UniqueIds /\ exec.pc = "item" /\ exec'.pc = "process")
        => LET i == find(jobs, exec.job[1].id)
               k == find_item(jobs[i].items, exec.job[1].items[exec.idx].id)
           IN  jobs[i].items[k].status # "Completed"]_vars

\* C8: retry_failed on a job with a Failed item makes exactly the Failed items
\* Pending with error and duration cleared, leaves every other item as it was,
\* and sets the job Queued with completed_at none.
C8_RetryFailedEffect ==
    [][\A job_id \in CallIds :
        (has_failed(jobs, job_id) /\ RetryFailed(job_id))
        => LET i == find(jobs, job_id)
               old == jobs[i]
               new == jobs'[SlotAfter(i)]
           IN  /\ new.status = "Queued"
               /\ new.completed_at = None
               /\ DOMAIN new.items = DOMAIN old.items
               /\ \A k \in DOMAIN old.items :
                    IF old.items[k].status = "Failed"
                    THEN new.items[k] = [old.items[k] EXCEPT !.status = "Pending",
                                                             !.error = None,
                                                             !.duration_ms = None]
                    ELSE new.items[k] = old.items[k]]_vars

\* C8 witness: a job that has run is Queued again with completed_at none, its
\* Completed item keeping its duration and its retried item Pending and clear.
C8_Witness ==
    \E i \in DOMAIN jobs :
        /\ jobs[i].status = "Queued"
        /\ jobs[i].started_at # None
        /\ jobs[i].completed_at = None
        /\ \E k, m \in DOMAIN jobs[i].items :
            /\ jobs[i].items[k].status = "Completed"
            /\ jobs[i].items[k].duration_ms # None
            /\ jobs[i].items[m].status = "Pending"
            /\ jobs[i].items[m].error = None
            /\ jobs[i].items[m].duration_ms = None

\* C9: retry_failed on an existing job with no Failed item returns an error
\* and leaves the store as it was; a second call does the same.
C9_RetryNoFailedIsError ==
    [][\A job_id \in KnownIds :
        (~has_failed(jobs, job_id) /\ RetryFailed(job_id))
        => /\ hist'.ret = "Err"
           /\ jobs' = jobs
           /\ retry_failed(jobs', job_id) = [result |-> "Err", jobs |-> jobs]]_vars

\* C9 witness: the last call returned the error, on a store with a job that
\* ran to Completed.
C9_Witness ==
    /\ hist.ret = "Err"
    /\ \E i \in DOMAIN jobs : jobs[i].status = "Completed"

\* C10: retry_failed never changes the status of a job that is Running or
\* Queued.
C10_RetryOnlyFromTerminal ==
    [][\A job_id \in CallIds :
        ( /\ find(jobs, job_id) # 0
          /\ jobs[find(jobs, job_id)].status \in {"Running", "Queued"}
          /\ RetryFailed(job_id) )
        => jobs'[SlotAfter(find(jobs, job_id))].status
              = jobs[find(jobs, job_id)].status]_vars

\* C11: mark_running on a job that is not Queued changes neither its status nor
\* its started_at; on a Queued job it sets status Running and sets started_at.
C11_MarkRunningOnlyFromQueued ==
    [][\A job_id \in KnownIds :
        MarkRunning(job_id)
        => LET i == find(jobs, job_id)
           IN  IF jobs[i].status = "Queued"
               THEN jobs'[i].status = "Running" /\ jobs'[i].started_at # None
               ELSE /\ jobs'[i].status = jobs[i].status
                    /\ jobs'[i].started_at = jobs[i].started_at]_vars

\* C12: in every reachable state, a job's completed_at is set if and only if
\* its status is Completed, CompletedWithErrors or Cancelled.
C12_CompletedAtIffTerminal ==
    \A i \in DOMAIN jobs :
        (jobs[i].completed_at # None) <=> (jobs[i].status \in Terminal)

\* C15: for every job the Completed, Failed and Skipped-or-Cancelled items
\* number at most the job's items, and all of them (no item Pending or Running)
\* when the job's status is terminal.
C15_ItemCountsAddUp ==
    \A i \in DOMAIN jobs :
        LET items == jobs[i].items
            settled == count_status(items, {"Completed"})
                       + count_status(items, {"Failed"})
                       + count_status(items, {"Skipped", "Cancelled"})
        IN  /\ settled <= Len(items)
            /\ jobs[i].status \in Terminal => settled = Len(items)

\* the events of the execution in progress, or of the last one
IsEvent(k, name) == events[k].name = name
ProgressEvents == {k \in DOMAIN events : IsEvent(k, "ai_batch:item_progress")}
EventItemPos(k) ==
    find_item(jobs[find(jobs, events[k].job_id)].items, events[k].item_id)
InExecution == exec.pc \in {"check", "item", "process", "record", "mark_completed"}

\* C13: the events of one execution are one job_started, then item_progress
\* events in the job's item order with at most one per item, then one
\* job_completed; no item_progress comes before job_started or after
\* job_completed.
C13_EventOrder ==
    LET n == Len(events)
    IN  /\ exec.pc = "mark_running" => n = 0
        /\ InExecution =>
              /\ n >= 1
              /\ IsEvent(1, "ai_batch:job_started")
              /\ ProgressEvents = 2..n
        /\ (exec.pc \in {"sleep", "next"} /\ n > 0) =>
              /\ n >= 2
              /\ IsEvent(1, "ai_batch:job_started")
              /\ IsEvent(n, "ai_batch:job_completed")
              /\ events[n].summary.job_id = events[1].job_id
              /\ ProgressEvents = 2..(n - 1)
        /\ \A k \in ProgressEvents : events[k].job_id = events[1].job_id
        /\ \A k, m \in ProgressEvents : k < m => EventItemPos(k) < EventItemPos(m)

\* C13 witness: an execution has ended with an event for each of the job's
\* items, one skipped and one processed.
C13_Witness ==
    /\ exec.pc = "sleep"
    /\ Len(events) = MaxItems + 2
    /\ \E k, m \in ProgressEvents :
        events[k].status = "Skipped" /\ events[m].status = "Completed"

\* C14: when an execution ends, the items with an item_progress event are
\* the job's items whose status is not Pending, and the completed counts of
\* successive item_progress events never decrease.
C14_ProgressCoversSettledItems ==
    [][(exec.pc = "mark_completed" /\ exec'.pc = "sleep")
        => LET i == find(jobs', exec.job[1].id)
               progress == {k \in DOMAIN events' :
                                events'[k].name = "ai_batch:item_progress"}
           IN  /\ {events'[k].item_id : k \in progress}
                    = {jobs'[i].items[k].id :
                         k \in {m \in DOMAIN jobs'[i].items :
                                    jobs'[i].items[m].status # "Pending"}}
               /\ \A k, m \in progress :
                    k < m => events'[k].completed <= events'[m].completed]_vars

\* C16: in every state, each item that is Completed with a recorded duration
\* has an ETA sample for (resource_key, operation, size_bucket).
C16_CompletedItemHasSample ==
    \A i \in DOMAIN jobs : \A k \in DOMAIN jobs[i].items :
        (jobs[i].items[k].status = "Completed" /\ jobs[i].items[k].duration_ms # None)
        => sample_count(eta, jobs[i].resource_key, jobs[i].operation,
                        jobs[i].items[k].size_bucket) >= 1

\* C17: no thread holds the jobs lock at the moment it acquires the eta lock:
\* in update_item and in estimate_remaining_ms, no thread ever holds both.
C17_JobsLockNotHeldWithEtaLock ==
    \A t \in Threads : ~ ({"jobs", "eta"} \subseteq thr[t].held)

\* C18: a restart (QueueManager::new over the existing store) keeps the set of
\* job ids, turns every processing job into pending, leaves every other
\* status as it was, and leaves no job processing.
C18_RestartRequeues ==
    [][queue_hist'.restarts # queue_hist.restarts
        => /\ DOMAIN db' = DOMAIN db
           /\ \A id \in DOMAIN db :
                db'[id].status = IF db[id].status = "processing" THEN "pending"
                                 ELSE db[id].status
           /\ \A id \in DOMAIN db' : db'[id].status # "processing"]_vars

\* C18 witness: after a restart, a job that had been started is pending again
\* beside a job that had finished.
C18_Witness ==
    /\ queue_hist.restarts > 0
    /\ \E a, b \in DOMAIN db :
        /\ db[a].status = "pending" /\ db[a].started_at # None
        /\ db[b].status \in {"completed", "failed", "cancelled"}

\* C19: a job whose status is cancelled (QueueManager::cancel returned Ok for
\* it) has status cancelled in every later state.
C19_QueueCancelledStays ==
    [][\A id \in DOMAIN db :
        db[id].status = "cancelled"
        => id \in DOMAIN db' /\ db'[id].status = "cancelled"]_vars

\* C20: when the handler of a job cancelled while processing returns
\* Err(QueueError::Cancelled), the executor ends the job having emitted
\* queue:job_cancelled and no queue:job_failed, and the job's status is
\* cancelled.
C20_CancelledHandlerErrIsCancelled ==
    [][( /\ queue_hist.cancel_in_flight
         /\ queue_exec.pc # "sleep" /\ queue_exec'.pc = "sleep"
         /\ queue_hist'.restarts = queue_hist.restarts )
        => LET job_id == queue_exec.job_id[1]
           IN  /\ \E k \in DOMAIN queue_events' :
                    /\ queue_events'[k].name = "queue:job_cancelled"
                    /\ queue_events'[k].job_id = job_id
               /\ \A k \in DOMAIN queue_events' :
                    queue_events'[k].name # "queue:job_failed"
               /\ db'[job_id].status = "cancelled"]_vars

\* C21: while the queue is paused (pause() has returned and resume() has not
\* been called), the executor starts no job: no job goes from pending to
\* processing and no queue:job_started is emitted.
C21_NoStartWhilePaused ==
    [][(paused /\ paused')
        => /\ \A id \in DOMAIN db :
                ~(db[id].status = "pending" /\ id \in DOMAIN db'
                    /\ db'[id].status = "processing")
           /\ ~(queue_exec.pc = "picked" /\ queue_exec'.pc = "execute")]_vars

\* C22: with max_consecutive = N > 0, the executor starts at most N jobs in a
\* row with no forced cooldown and no empty poll in between, whatever the
\* jobs' outcomes.
C22_AtMostMaxConsecutiveInARow ==
    MaxConsecutive > 0 => queue_hist.started_in_row <= MaxConsecutive

\* C23: the job the executor selects is, at that moment, a pending job whose
\* priority integer is the smallest among the pending jobs and whose creation
\* time is the oldest among the pending jobs of that priority.
C23_SelectsFirstRankedPending ==
    [][(queue_exec.pc = "next" /\ queue_exec'.pc = "picked")
        => LET job_id == queue_exec'.job_id[1]
           IN  /\ job_id \in DOMAIN db
               /\ db[job_id].status = "pending"
               /\ \A other \in DOMAIN db :
                    db[other].status = "pending"
                    => /\ db[job_id].priority <= db[other].priority
                       /\ db[other].priority = db[job_id].priority
                            => db[job_id].created_at <= db[other].created_at]_vars

\* C23 witness: the executor has selected a High job while an older Normal job
\* is pending.
C23_Witness ==
    /\ queue_exec.pc = "picked"
    /\ \E other \in DOMAIN db :
        LET job_id == queue_exec.job_id[1]
        IN  /\ db[job_id].status = "pending" /\ db[other].status = "pending"
            /\ db[job_id].priority = as_i32("High")
            /\ db[other].priority = as_i32("Normal")
            /\ db[other].created_at < db[job_id].created_at

\* C24: an enqueue of a job whose supplied id is the id of a job in the store
\* returns an error and adds nothing, and the ids in the store stay pairwise
\* distinct.
C24_EnqueueRejectsDuplicateId ==
    [][\A supplied \in KnownIds :
        (\E rk \in ResourceKeys, op \in Operations, pol \in OverwritePolicies :
            Enqueue(supplied, rk, op, pol, MaxItems))
        => /\ jobs' = jobs
           /\ hist'.ret = "Err"
           /\ \A i, k \in DOMAIN jobs' : jobs'[i].id = jobs'[k].id => i = k]_vars

\* the items of a job with one of the statuses, and the sum of the durations
\* recorded on a set of items
ItemsWith(items, statuses) == {k \in DOMAIN items : items[k].status \in statuses}
RECURSIVE DurationSum(_, _)
DurationSum(items, S) ==
    IF S = {} THEN 0
    ELSE LET k == CHOOSE x \in S : TRUE
         IN  (IF items[k].duration_ms = None THEN 0 ELSE items[k].duration_ms[1])
             + DurationSum(items, S \ {k})

\* C25: mark_completed(id) sets the job CompletedWithErrors if an item is
\* Failed and Completed otherwise, and returns total = number of items,
\* succeeded / failed / skipped = number of Completed / Failed / Skipped or
\* Cancelled items, total_duration_ms = sum of the recorded durations, and
\* avg_duration_ms = total_duration_ms div (succeeded + failed), 0 when
\* succeeded + failed = 0.
C25_MarkCompletedSummary ==
    [][\A job_id \in KnownIds :
        MarkCompleted(job_id)
        => LET i == find(jobs, job_id)
               items == jobs[i].items
               succeeded == Cardinality(ItemsWith(items, {"Completed"}))
               failed == Cardinality(ItemsWith(items, {"Failed"}))
               total_ms == DurationSum(items, DOMAIN items)
               s == hist'.summary[1]
           IN  /\ hist'.summary # None
               /\ jobs'[i].status = IF failed >= 1 THEN "CompletedWithErrors"
                                     ELSE "Completed"
               /\ s.total = Len(items)
               /\ s.succeeded = succeeded
               /\ s.failed = failed
               /\ s.skipped = Cardinality(ItemsWith(items, {"Skipped", "Cancelled"}))
               /\ s.total_duration_ms = total_ms
               /\ s.avg_duration_ms = IF succeeded + failed = 0 THEN 0
                                       ELSE total_ms \div (succeeded + failed)]_vars

\* C25 witness: mark_completed has returned a summary with one item succeeded
\* and one failed, whose average is rounded down, for a job left
\* CompletedWithErrors.
C25_Witness ==
    /\ hist.summary # None
    /\ hist.summary[1].succeeded = 1
    /\ hist.summary[1].failed = 1
    /\ hist.summary[1].total_duration_ms = 7
    /\ hist.summary[1].avg_duration_ms = 3
    /\ \E i \in DOMAIN jobs :
        jobs[i].id = hist.summary[1].job_id /\ jobs[i].status = "CompletedWithErrors"

\* the EtaStats an estimate takes for one bucket, as the claim words it
EtaKeyOf(resource_key, operation, bucket) ==
    [resource_key |-> resource_key, operation |-> operation, size_bucket |-> bucket]
HasData(resource_key, operation, bucket) ==
    \/ EtaKeyOf(resource_key, operation, bucket) \in DOMAIN eta
    \/ EtaKeyOf(resource_key, operation, "Unknown") \in DOMAIN eta
BucketAverage(resource_key, operation, bucket) ==
    LET stats == IF EtaKeyOf(resource_key, operation, bucket) \in DOMAIN eta
                 THEN eta[EtaKeyOf(resource_key, operation, bucket)]
                 ELSE eta[EtaKeyOf(resource_key, operation, "Unknown")]
    IN  stats.total_ms \div stats.count
RECURSIVE AverageSum(_, _, _, _)
AverageSum(resource_key, operation, buckets, S) ==
    IF S = {} THEN 0
    ELSE LET k == CHOOSE x \in S : TRUE
         IN  BucketAverage(resource_key, operation, buckets[k])
             + AverageSum(resource_key, operation, buckets, S \ {k})

\* C26: estimate_remaining(resource, operation, buckets) returns nothing when
\* no bucket of the list has data under its exact key or under the Unknown key
\* of the same (resource, operation); otherwise the sum, over the buckets that
\* have data, of total_ms div count from the exact key if present and else
\* from the Unknown key.
C26_EstimateRemainingSum ==
    [][\A t \in Threads :
        (thr'[t] # thr[t] /\ thr'[t].pc = "idle" /\ thr'[t].args # None)
        => LET a == thr'[t].args[1]
               with_data == {k \in DOMAIN a.remaining_buckets :
                               HasData(a.resource_key, a.operation,
                                       a.remaining_buckets[k])}
           IN  thr'[t].ret[1] =
                 IF with_data = {} THEN None
                 ELSE Some(AverageSum(a.resource_key, a.operation,
                                      a.remaining_buckets, with_data))]_vars

\* C26 witness: an estimate has been returned for a list of two buckets, one
\* with two samples under its exact key (7 div 2 = 3) and one that has only
\* the Unknown key to fall back on.
C26_Witness ==
    \E t \in Threads :
        /\ thr[t].pc = "idle" /\ thr[t].args # None /\ thr[t].ret # None
        /\ LET a == thr[t].args[1]
           IN  /\ Len(a.remaining_buckets) = 2
               /\ LET exact == EtaKeyOf(a.resource_key, a.operation,
                                        a.remaining_buckets[1])
                      other == EtaKeyOf(a.resource_key, a.operation,
                                        a.remaining_buckets[2])
                      fallback == EtaKeyOf(a.resource_key, a.operation, "Unknown")
                  IN  /\ exact \in DOMAIN eta
                      /\ eta[exact] = [total_ms |-> 7, count |-> 2]
                      /\ other \notin DOMAIN eta
                      /\ fallback \in DOMAIN eta
                      /\ thr[t].ret[1] = Some(3 + eta[fallback].total_ms)

\* the slot of the job the executor took from next_queued (created_at is
\* distinct per job: the clock ticks at every enqueue)
PickedSlot == CHOOSE k \in DOMAIN jobs : jobs[k].created_at = exec.job[1].created_at
FailedProgress(evs) ==
    {k \in DOMAIN evs :
        evs[k].name = "ai_batch:item_progress" /\ evs[k].status = "Failed"}

\* C27: when handler.process fails for an item, the item of the job being
\* executed is recorded as Failed with the error message, and when the
\* execution ends the job has a terminal status and the executor is back in
\* its polling loop.
C27_HandlerFailureNotFatal ==
    [][/\ (exec.pc = "process" /\ exec'.pc = "check"
            /\ Len(events') = Len(events) + 1
            /\ FailedProgress(events') # FailedProgress(events))
          => /\ jobs'[PickedSlot].items[exec.idx].status = "Failed"
             /\ jobs'[PickedSlot].items[exec.idx].error # None
       /\ (exec.pc = "mark_completed" /\ exec' # exec
            /\ FailedProgress(events) # {})
          => /\ jobs'[PickedSlot].status \in Terminal
             /\ exec'.pc = "sleep"]_vars

\* C28: a reorder pass that changes the order marks exactly the Queued jobs
\* whose slot changed: a moved job gets reordered = true and a note, a Queued
\* job that keeps its slot keeps its reordered flag and its note.  (The pass
\* is the one at the end of an enqueue; the jobs are those already stored.)
C28_ReorderMarksMovedOnly ==
    [][Len(jobs') = Len(jobs) + 1
        => \A i \in DOMAIN jobs :
             jobs[i].status = "Queued"
             => LET k == SlotAfter(i)
                IN  IF k # i
                    THEN jobs'[k].reordered /\ jobs'[k].reorder_note # None
                    ELSE /\ jobs'[k].reordered = jobs[i].reordered
                         /\ jobs'[k].reorder_note = jobs[i].reorder_note]_vars

\* C29: after enqueueing three jobs with resource keys B, A, B (2, 1, 2) in
\* that order into an empty queue, the list order is A, B, B and all three
\* jobs have reordered = true and a reorder note.
C29_EnqueueBABAllMarked ==
    ( /\ hist.calls = 0
      /\ Len(jobs) = 3
      /\ UniqueIds
      /\ \A i \in DOMAIN jobs :
            jobs[i].resource_key = IF jobs[i].created_at = 2 THEN 1 ELSE 2 )
    => /\ [i \in DOMAIN jobs |-> jobs[i].resource_key] = <<1, 2, 2>>
       /\ \A i \in DOMAIN jobs : jobs[i].reordered /\ jobs[i].reorder_note # None

\* C30: the reorder pass is idempotent: a pass applied to the result of a
\* pass leaves the list (order, reordered flags and notes) as it is.
C30_ReorderIdempotent ==
    [][(hist.calls >= 1 /\ hist'.calls = hist.calls + 1) => jobs' = jobs]_vars

\* C30 witness: two passes have been applied to a list whose Queued jobs the
\* first pass permuted (a job now stands before one that started in an
\* earlier slot) around a Running job.
C30_Witness ==
    /\ hist.calls = 2
    /\ \E i, k, r \in DOMAIN jobs :
        /\ i < r /\ r < k
        /\ jobs[r].status = "Running"
        /\ jobs[i].status = "Queued" /\ jobs[k].status = "Queued"
        /\ jobs[i].created_at > jobs[k].created_at
        /\ jobs[i].reordered /\ jobs[k].reordered

\* C31: in every state reached by enqueue, mark_running, update_item,
\* mark_completed, cancel_job and retry_failed calls, the Queued jobs that
\* share a resource key are adjacent in the Queued sub-sequence and stand in
\* ascending created_at order.  Stated for the states whose job ids are
\* distinct, so that a violation does not rest on enqueue accepting an id twice.
C31_SameKeyAdjacentFifo ==
    LET qi == queued_indices(jobs)
    IN  UniqueIds => \A a, b \in DOMAIN qi :
            (a < b /\ jobs[qi[a]].resource_key = jobs[qi[b]].resource_key)
            => /\ jobs[qi[a]].created_at <= jobs[qi[b]].created_at
               /\ \A c \in DOMAIN qi :
                    (a < c /\ c < b)
                    => jobs[qi[c]].resource_key = jobs[qi[a]].resource_key

\* C32: cancel_job(id) on a job in a terminal status (Completed,
\* CompletedWithErrors, Cancelled) is a no-op or an illegal-transition error:
\* the job's status, its completed_at and its item statuses stay as they were.
C32_CancelTerminalJobNoChange ==
    [][\A job_id \in KnownIds :
        (CancelJob(job_id) /\ jobs[find(jobs, job_id)].status \in Terminal)
        => LET i == find(jobs, job_id)
           IN  /\ jobs'[i].status = jobs[i].status
               /\ jobs'[i].completed_at = jobs[i].completed_at
               /\ \A k \in DOMAIN jobs[i].items :
                    jobs'[i].items[k].status = jobs[i].items[k].status]_vars

\* C35: mark_running, update_item, mark_completed, cancel_item and cancel_job
\* called with a job id that no job of the store has return a not-found error
\* and leave the store unchanged.
C35_UnknownIdIsNotFoundError ==
    [][\A job_id \in CallIds :
        (/\ find(jobs, job_id) = 0
         /\ \/ MarkRunning(job_id)
            \/ MarkCompleted(job_id)
            \/ CancelJob(job_id)
            \/ \E item_id \in ItemIds : CancelItem(job_id, item_id)
            \/ \E item_id \in ItemIds, u \in ItemUpdates :
                    UpdateItem(job_id, item_id, u[1], u[2], u[3]))
        => (hist'.ret = "Err" /\ jobs' = jobs)]_vars

\* C33: QueueManager::cancel(id) returns an error and changes no row when id
\* is not in the store or the job is completed, failed or cancelled; it
\* succeeds, setting status cancelled and completed_at, only for a pending or
\* a processing job.
C33_QueueCancelOnlyPendingOrProcessing ==
    [][\A job_id \in JobIds :
        QueueCancel(job_id)
        => IF job_id \in DOMAIN db /\ db[job_id].status \in {"pending", "processing"}
           THEN /\ queue_hist'.ret = "Ok"
                /\ db' = [db EXCEPT ![job_id].status = "cancelled",
                                    ![job_id].completed_at = Some(now)]
           ELSE /\ queue_hist'.ret \in {"Err: not found", "Err: not cancellable"}
                /\ db' = db]_vars

\* C33 witness: a cancel has been refused for a job that is completed or
\* failed, beside a job that was cancelled while it was processing.
C33_Witness ==
    /\ queue_hist.ret = "Err: not cancellable"
    /\ \E a, b \in DOMAIN db :
        /\ db[a].status \in {"completed", "failed"}
        /\ db[b].status = "cancelled" /\ db[b].started_at # None

C36_NoLockHeldDuringProcess ==
    \A t \in Threads : thr[t].pc = "process" => thr[t].held = {}

\* C36 witness: while one thread is inside handler.process, another thread is
\* inside a call on the store and holds the jobs lock.
C36_Witness ==
    \E t, u \in Threads :
        /\ thr[t].pc = "process"
        /\ thr[u].pc \in {"update_item", "estimate_remaining_ms"}
        /\ "jobs" \in thr[u].held

\* C37: next_queued returns nothing exactly when no job is Queued; otherwise
\* it returns the first Queued job in list order, and in every reachable state
\* that job has the smallest resource_key among the Queued jobs.
C37_NextQueuedIsFirstAndSmallestKey ==
    LET r == next_queued(jobs)
        Queued == {i \in DOMAIN jobs : jobs[i].status = "Queued"}
    IN  /\ r = None <=> Queued = {}
        /\ r # None
           => /\ \E i \in Queued :
                    r[1] = jobs[i] /\ \A k \in Queued : i <= k
              /\ \A k \in Queued : r[1].resource_key <= jobs[k].resource_key

\* C38: an item that cancel_item has turned from Pending into Cancelled stays
\* Cancelled for the rest of the run: the executor does not mark it Running,
\* Completed, Failed or Skipped, whatever the interleaving of the cancel_item
\* call with the executor's check of the item and its Running mark.
C38_CancelledItemStaysCancelled ==
    \A i \in DOMAIN jobs : \A k \in DOMAIN jobs[i].items :
        <<jobs[i].created_at, jobs[i].items[k].id>> \in hist.item_cancelled
        => jobs[i].items[k].status = "Cancelled"

\* C39: with finitely many jobs, every handler call returning and the executor
\* fairly scheduled, every enqueued job eventually reaches a terminal status
\* (Completed, CompletedWithErrors or Cancelled), also when cancel_job and
\* retry_failed calls interleave with the executor.  A job is named by its
\* created_at.
C39_EveryJobEventuallyTerminal ==
    \A c \in 1..MaxJobs :
        (\E i \in DOMAIN jobs : jobs[i].created_at = c)
        ~> (\E i \in DOMAIN jobs :
                jobs[i].created_at = c /\ jobs[i].status \in Terminal)

\* a job without the two fields the reorder pass writes
JobCore(j) ==
    [id |-> j.id, resource_key |-> j.resource_key, operation |-> j.operation,
     items |-> j.items, status |-> j.status, created_at |-> j.created_at,
     started_at |-> j.started_at, completed_at |-> j.completed_at]

\* C40: no BatchQueue operation removes or duplicates a job: the list grows
\* by exactly one at an enqueue and keeps its length otherwise, and every job
\* is in the list once after the step.  The reorder pass of an enqueue only
\* permutes: every job that was in the list is there with the same id, items,
\* status and timestamps, a job that was not Queued in the same slot, and a
\* Queued job in a slot that a Queued job occupied.
C40_ReorderPermutesNothingLost ==
    [][/\ Len(jobs') = IF now' # now THEN Len(jobs) + 1 ELSE Len(jobs)
       /\ \A i \in DOMAIN jobs :
            Cardinality({k \in DOMAIN jobs' :
                            jobs'[k].created_at = jobs[i].created_at}) = 1
       /\ now' # now
          => \A i \in DOMAIN jobs :
                /\ JobCore(jobs'[SlotAfter(i)]) = JobCore(jobs[i])
                /\ jobs[i].status # "Queued" => SlotAfter(i) = i
                /\ jobs[i].status = "Queued"
                   => \/ SlotAfter(i) = Len(jobs')
                      \/ jobs[SlotAfter(i)].status = "Queued"]_vars

\* C40 witness: an enqueue has moved the Queued jobs of slots 1 and 3 around a
\* job that is not Queued.
C40_Witness ==
    /\ Len(jobs) = 3
    /\ jobs[2].status # "Queued"
    /\ jobs[1].status = "Queued" /\ jobs[3].status = "Queued"
    /\ jobs[1].reordered /\ jobs[3].reordered
    /\ jobs[3].created_at < jobs[1].created_at

====
